---- MODULE Spec2Model ----
(***************************************************************************)
(* A model of deep-diff-esm: the recursive comparison engine (deepDiff,    *)
(* observableDiff, diff) and the replay engine (applyChange, revertChange, *)
(* applyArrayChange, revertArrayChange), over an explicit heap of          *)
(* JavaScript objects so that reference identity, in-place mutation and    *)
(* reference cycles are part of the state.                                 *)
(***************************************************************************)
EXTENDS Integers, Sequences, FiniteSets, TLC

VARIABLES
    heap,       \* the object store: address -> object
    lhs,        \* the origin value handed to diff / observableDiff
    rhs,        \* the comparand value
    copy,       \* the deep copy of lhs the records are replayed on
    options,    \* the third argument of diff
    acc,        \* the caller's appendable sequence (when one is supplied)
    changes,    \* the records observableDiff returned
    returned,   \* what diff returned: "none" yet, "undefined", "changes", "acc"
    residual,   \* the records of the last verification diff
    idx,        \* position of the replay in changes
    err,        \* the exception that escaped: "none", "TypeError", "RangeError"
    pc,         \* position of the caller's script
    observer    \* the observer handed to observableDiff (applyDiff hands its own)

vars == <<heap, lhs, rhs, copy, options, acc, changes, returned, residual, idx, err, pc, observer>>

(***************************************************************************)
(* JavaScript values.  A value is a primitive or a reference to a heap     *)
(* object; Hole marks an absent array slot (it is never handed out: a read *)
(* of a hole yields undefined).                                            *)
(***************************************************************************)
Prim(t, n, s) == [t |-> t, n |-> n, s |-> s]
Undefined == Prim("undefined", 0, "")
Null == Prim("null", 0, "")
NaN == Prim("number", 0, "NaN")
Hole == Prim("hole", 0, "")
Num(n) == Prim("number", n, "")
Str(s) == Prim("string", 0, s)
Bool(b) == Prim("boolean", IF b THEN 1 ELSE 0, "")
Ref(a) == Prim("ref", a, "")

IsRef(v) == v.t = "ref"

\* a === b
StrictEq(a, b) == a = b /\ a # NaN

\* the value is truthy
Truthy(v) ==
    CASE v.t = "undefined" -> FALSE
      [] v.t = "null" -> FALSE
      [] v.t = "number" -> v.s # "NaN" /\ v.n # 0
      [] v.t = "string" -> v.s # ""
      [] v.t = "boolean" -> v.n = 1
      [] OTHER -> TRUE

\* typeof v
TypeOf(v) == IF v.t \in {"ref", "null"} THEN "object" ELSE v.t

(***************************************************************************)
(* Heap objects.  kind is "array", "object", "date", "regexp" or "math";   *)
(* elems are an array's slots, keys/vals its own enumerable string-keyed   *)
(* properties in enumeration order, n/s the time value of a date (s =      *)
(* "NaN" for an invalid date) or the textual form of a regexp.             *)
(***************************************************************************)
Obj(kind, elems, keys, vals, n, s) ==
    [kind |-> kind, elems |-> elems, keys |-> keys, vals |-> vals, n |-> n, s |-> s]
ArrayObj(elems) == Obj("array", elems, <<>>, <<>>, 0, "")
PlainObj(keys, vals) == Obj("object", <<>>, keys, vals, 0, "")
DateObj(n, s) == Obj("date", <<>>, <<>>, <<>>, n, s)
RegExpObj(s) == Obj("regexp", <<>>, <<>>, <<>>, 0, s)

IsArray(h, v) == IsRef(v) /\ h[v.n].kind = "array"

\* the decimal text of the small integers used as property keys
DigitText == <<"0", "1", "2", "3", "4", "5", "6", "7", "8", "9">>
NumText(n) == IF n \in 0..9 THEN DigitText[n + 1] ELSE "n"

\* ToPropertyKey: the string a non-index key is looked up under
PropertyKey(k) ==
    CASE k.t = "string" -> k.s
      [] k.t = "number" -> IF k.s = "NaN" THEN "NaN" ELSE NumText(k.n)
      [] OTHER -> k.t

IsIndex(k) == k.t = "number" /\ k.s = "" /\ k.n >= 0

IndexOf(seq, x) ==
    IF \E i \in 1..Len(seq) : seq[i] = x
    THEN CHOOSE i \in 1..Len(seq) : seq[i] = x /\ \A j \in 1..(i - 1) : seq[j] # x
    ELSE 0

\* Object.getOwnPropertyDescriptor(v, k) is truthy
HasOwn(h, v, k) ==
    /\ IsRef(v)
    /\ LET o == h[v.n]
       IN IF o.kind = "array" /\ IsIndex(k)
          THEN k.n < Len(o.elems) /\ o.elems[k.n + 1] # Hole
          ELSE IndexOf(o.keys, PropertyKey(k)) # 0

\* v[k] throws TypeError
ReadThrows(v) == v.t \in {"undefined", "null"}

\* v[k], for a v on which the read does not throw
Get(h, v, k) ==
    IF ~IsRef(v) THEN Undefined
    ELSE LET o == h[v.n]
         IN IF o.kind = "array" /\ IsIndex(k)
            THEN IF k.n < Len(o.elems) /\ o.elems[k.n + 1] # Hole
                 THEN o.elems[k.n + 1]
                 ELSE Undefined
            ELSE LET p == IndexOf(o.keys, PropertyKey(k))
                 IN IF p = 0 THEN Undefined ELSE o.vals[p]

Holes(n) == [i \in 1..n |-> Hole]

\* v[k] = x in strict-mode code: the heap afterwards, or a TypeError
Put(h, v, k, x) ==
    IF ~IsRef(v) THEN [h |-> h, err |-> "TypeError"]
    ELSE LET o == h[v.n]
             o2 == IF o.kind = "array" /\ IsIndex(k)
                   THEN IF k.n < Len(o.elems)
                        THEN [o EXCEPT !.elems[k.n + 1] = x]
                        ELSE [o EXCEPT !.elems = o.elems \o Holes(k.n - Len(o.elems)) \o <<x>>]
                   ELSE LET p == IndexOf(o.keys, PropertyKey(k))
                        IN IF p = 0
                           THEN [o EXCEPT !.keys = Append(o.keys, PropertyKey(k)),
                                          !.vals = Append(o.vals, x)]
                           ELSE [o EXCEPT !.vals[p] = x]
         IN [h |-> [h EXCEPT ![v.n] = o2], err |-> "none"]

RemoveAt(seq, p) == SubSeq(seq, 1, p - 1) \o SubSeq(seq, p + 1, Len(seq))

\* delete v[k]
Delete(h, v, k) ==
    IF ReadThrows(v) THEN [h |-> h, err |-> "TypeError"]
    ELSE IF ~IsRef(v) THEN [h |-> h, err |-> "none"]
    ELSE LET o == h[v.n]
             o2 == IF o.kind = "array" /\ IsIndex(k)
                   THEN IF k.n < Len(o.elems)
                        THEN [o EXCEPT !.elems[k.n + 1] = Hole]
                        ELSE o
                   ELSE LET p == IndexOf(o.keys, PropertyKey(k))
                        IN IF p = 0 THEN o
                           ELSE [o EXCEPT !.keys = RemoveAt(o.keys, p),
                                          !.vals = RemoveAt(o.vals, p)]
         IN [h |-> [h EXCEPT ![v.n] = o2], err |-> "none"]

\* allocation of a fresh object: the heap afterwards and the new reference
Alloc(h, o) == [h |-> Append(h, o), v |-> Ref(Len(h) + 1)]

(***************************************************************************)
(* utils.js                                                                *)
(***************************************************************************)
realTypeOf(h, subject) ==
    IF TypeOf(subject) # "object" THEN TypeOf(subject)
    ELSE IF subject = Null THEN "null"
    ELSE h[subject.n].kind

\* arrayRemove with rest = arr.slice(from): the element at from is kept
arrayRemoveKeeping(elems, from) ==
    SubSeq(elems, 1, from) \o SubSeq(elems, from + 1, Len(elems))

\* arrayRemove(arr, from): the elements of arr without the one at index from
\* (to is never passed: rest = arr.slice(from + 1 || arr.length))
arrayRemove(elems, from) ==
    LET start == IF from + 1 # 0 THEN from + 1 ELSE Len(elems)
        \* slice(start): a negative start counts from the end
        first == IF start < 0 THEN (IF Len(elems) + start < 0 THEN 0 ELSE Len(elems) + start)
                 ELSE start
        rest == SubSeq(elems, first + 1, Len(elems))
        newLen == IF from < 0 THEN Len(elems) + from ELSE from
        kept == IF newLen <= Len(elems) THEN SubSeq(elems, 1, newLen)
                ELSE elems \o Holes(newLen - Len(elems))
    IN kept \o rest

(***************************************************************************)
(* Strings as UTF-16 code units, for the strings the model hashes: the     *)
(* literal pieces of the templates of getOrderIndependentHash, the type    *)
(* names, the keys and the textual forms of the values.                    *)
(***************************************************************************)
CharCodes ==
    "" :> <<>> @@
    "a" :> <<97>> @@
    "b" :> <<98>> @@
    "self" :> <<115, 101, 108, 102>> @@
    "Aa" :> <<65, 97>> @@
    "BB" :> <<66, 66>> @@
    "0" :> <<48>> @@
    "1" :> <<49>> @@
    "2" :> <<50>> @@
    "3" :> <<51>> @@
    "4" :> <<52>> @@
    "5" :> <<53>> @@
    "6" :> <<54>> @@
    "7" :> <<55>> @@
    "8" :> <<56>> @@
    "9" :> <<57>> @@
    "-" :> <<45>> @@
    "NaN" :> <<78, 97, 78>> @@
    "undefined" :> <<117, 110, 100, 101, 102, 105, 110, 101, 100>> @@
    "null" :> <<110, 117, 108, 108>> @@
    "true" :> <<116, 114, 117, 101>> @@
    "false" :> <<102, 97, 108, 115, 101>> @@
    "number" :> <<110, 117, 109, 98, 101, 114>> @@
    "string" :> <<115, 116, 114, 105, 110, 103>> @@
    "boolean" :> <<98, 111, 111, 108, 101, 97, 110>> @@
    "date" :> <<100, 97, 116, 101>> @@
    "regexp" :> <<114, 101, 103, 101, 120, 112>> @@
    "math" :> <<109, 97, 116, 104>> @@
    "object" :> <<111, 98, 106, 101, 99, 116>> @@
    "Invalid Date" :> <<73, 110, 118, 97, 108, 105, 100, 32, 68, 97, 116, 101>> @@
    "Thu Jan 01 1970 00:00:00 GMT+0000 (Coordinated Universal Time)" :> <<84, 104, 117, 32, 74, 97, 110, 32, 48, 49, 32, 49, 57, 55, 48, 32, 48, 48, 58, 48, 48, 58, 48, 48, 32, 71, 77, 84, 43, 48, 48, 48, 48, 32, 40, 67, 111, 111, 114, 100, 105, 110, 97, 116, 101, 100, 32, 85, 110, 105, 118, 101, 114, 115, 97, 108, 32, 84, 105, 109, 101, 41>> @@
    "[object Math]" :> <<91, 111, 98, 106, 101, 99, 116, 32, 77, 97, 116, 104, 93>> @@
    "/x/" :> <<47, 120, 47>> @@
    "/y/" :> <<47, 121, 47>> @@
    "[ type: " :> <<91, 32, 116, 121, 112, 101, 58, 32>> @@
    " ; value: " :> <<32, 59, 32, 118, 97, 108, 117, 101, 58, 32>> @@
    " ]" :> <<32, 93>> @@
    "[type: array, hash: " :> <<91, 116, 121, 112, 101, 58, 32, 97, 114, 114, 97, 121, 44, 32, 104, 97, 115, 104, 58, 32>> @@
    "]" :> <<93>> @@
    "[ type: object, key: " :> <<91, 32, 116, 121, 112, 101, 58, 32, 111, 98, 106, 101, 99, 116, 44, 32, 107, 101, 121, 58, 32>> @@
    ", value hash: " :> <<44, 32, 118, 97, 108, 117, 101, 32, 104, 97, 115, 104, 58, 32>>

Codes(s) == CharCodes[s]

(***************************************************************************)
(* JavaScript numbers that are integers beyond 32 bits (sums of hashes)    *)
(* are kept as hi * 65536 + lo with lo in 0..65535, so that no step of the *)
(* arithmetic leaves the range of 32-bit integers.                         *)
(***************************************************************************)
Big(hi, lo) == [hi |-> hi, lo |-> lo]
BigZero == Big(0, 0)
BigAdd(a, b) ==
    LET l == a.lo + b.lo
    IN Big(a.hi + b.hi + (l \div 65536), l % 65536)
BigNeg(a) == IF a.lo = 0 THEN Big(0 - a.hi, 0) ELSE Big(0 - a.hi - 1, 65536 - a.lo)
BigIsNeg(a) == a.hi < 0
BigLess(a, b) == a.hi < b.hi \/ (a.hi = b.hi /\ a.lo < b.lo)

\* the decimal digits of a non-negative number, as code units
RECURSIVE BigDigits(_)
BigDigits(a) ==
    LET r == a.hi % 10
        t == r * 65536 + a.lo
        q == Big(a.hi \div 10, t \div 10)
        d == 48 + (t % 10)
    IN IF q = BigZero THEN <<d>> ELSE Append(BigDigits(q), d)

\* `${n}` for an integer n
BigText(a) == IF BigIsNeg(a) THEN Codes("-") \o BigDigits(BigNeg(a)) ELSE BigDigits(a)

(***************************************************************************)
(* hashThisString: hash = (hash << 5) - hash + char, then hash & hash,     *)
(* that is hash * 31 + char wrapped to a signed 32-bit integer.            *)
(***************************************************************************)
HashStep(h, c) ==
    LET l == h.lo * 31 + c
        u == h.hi * 31 + (l \div 65536)
    IN Big(u % 65536, l % 65536)

\* ToInt32 of an unsigned 32-bit pattern
ToInt32(h) == IF h.hi >= 32768 THEN Big(h.hi - 65536, h.lo) ELSE h

\* the 32-bit pattern of a signed 32-bit value
ToUint32(h) == Big(h.hi % 65536, h.lo)

\* the loop body, for the characters i..j (evaluated in runs of a few
\* characters so that the evaluation stays shallow)
RECURSIVE hashRun(_, _, _, _), hashFrom(_, _, _)
hashRun(h, string, i, j) ==
    IF i > j THEN h
    ELSE LET next == ToInt32(HashStep(ToUint32(h), string[i]))
         IN IF next.hi = next.hi THEN hashRun(next, string, i + 1, j) ELSE next

hashFrom(h, string, i) ==
    IF i > Len(string) THEN h
    ELSE LET j == IF i + 7 < Len(string) THEN i + 7 ELSE Len(string)
             next == hashRun(h, string, i, j)
         IN IF next.hi = next.hi THEN hashFrom(next, string, j + 1) ELSE next

hashThisString(string) == IF Len(string) = 0 THEN BigZero ELSE hashFrom(BigZero, string, 1)

\* `${object}` for a value that is neither an array nor a plain object
ValueText(h, v) ==
    CASE v.t = "number" -> IF v.s = "NaN" THEN Codes("NaN") ELSE BigText(Big(0, v.n))
      [] v.t = "string" -> Codes(v.s)
      [] v.t = "boolean" -> IF v.n = 1 THEN Codes("true") ELSE Codes("false")
      [] v.t = "ref" ->
            LET o == h[v.n]
            IN CASE o.kind = "date" ->
                      IF o.s = "NaN" THEN Codes("Invalid Date")
                      ELSE Codes("Thu Jan 01 1970 00:00:00 GMT+0000 (Coordinated Universal Time)")
                 [] o.kind = "regexp" -> Codes(o.s)
                 [] OTHER -> Codes("[object Math]")
      [] OTHER -> Codes(v.t)

\* the references held by an array or a plain object (what the hash recurses into)
Children(h, a) ==
    LET o == h[a]
        held == IF o.kind = "array" THEN o.elems
                ELSE IF o.kind = "object" THEN o.vals ELSE <<>>
    IN {held[i].n : i \in {j \in 1..Len(held) : IsRef(held[j])}}

RECURSIVE ReachFrom(_, _, _)
ReachFrom(h, frontier, seen) ==
    IF frontier = {} THEN seen
    ELSE LET next == UNION {Children(h, a) : a \in frontier} \ (seen \cup frontier)
         IN ReachFrom(h, next, seen \cup frontier)

Reach(h, v) == IF IsRef(v) THEN ReachFrom(h, {v.n}, {}) ELSE {}

\* the object graph below v holds a reference cycle
Cyclic(h, v) == \E a \in Reach(h, v) : a \in ReachFrom(h, Children(h, a), {})

(***************************************************************************)
(* getOrderIndependentHash, for a value whose graph is acyclic (on a       *)
(* cyclic one the recursion has no base case: see sortByHash).             *)
(***************************************************************************)
\* accum + hashThisString(`[type: array, hash: ${accum}]`)
arrayHash(accum) ==
    BigAdd(accum, hashThisString(Codes("[type: array, hash: ") \o BigText(accum) \o Codes("]")))

RECURSIVE getOrderIndependentHash(_, _), hashItems(_, _, _), hashKeys(_, _, _)
getOrderIndependentHash(h, object) ==
    LET type == realTypeOf(h, object)
    IN IF type = "array"
       THEN arrayHash(hashItems(h, h[object.n].elems, 1))
       ELSE IF type = "object"
       THEN hashKeys(h, object.n, 1)
       ELSE hashThisString(Codes("[ type: ") \o Codes(type) \o Codes(" ; value: ")
                           \o ValueText(h, object) \o Codes(" ]"))

\* object.forEach(item => accum += hash(item)): holes are not visited
hashItems(h, elems, i) ==
    IF i > Len(elems) THEN BigZero
    ELSE IF elems[i] = Hole THEN hashItems(h, elems, i + 1)
    ELSE BigAdd(getOrderIndependentHash(h, elems[i]), hashItems(h, elems, i + 1))

\* for (const key in object) if own: accum += hashThisString(keyValueString)
hashKeys(h, a, i) ==
    IF i > Len(h[a].keys) THEN BigZero
    ELSE LET o == h[a]
             keyValueString ==
                 Codes("[ type: object, key: ") \o Codes(o.keys[i]) \o Codes(", value hash: ")
                 \o BigText(getOrderIndependentHash(h, o.vals[i])) \o Codes(" ]")
         IN BigAdd(hashThisString(keyValueString), hashKeys(h, a, i + 1))


\* evaluate v before e (keeps the evaluation of a threaded state shallow)
Then(v, e) == IF v = v THEN e ELSE e

\* the elements of seq that satisfy Keep, in order
RECURSIVE SelectFrom(_, _, _)
SelectFrom(seq, keep, i) ==
    IF i > Len(seq) THEN <<>>
    ELSE IF seq[i] \in keep THEN <<seq[i]>> \o SelectFrom(seq, keep, i + 1)
    ELSE SelectFrom(seq, keep, i + 1)

\* insertion of x, with sort key k, behind every element whose key is not greater
InsertByHash(sorted, x) ==
    LET after == {i \in 1..Len(sorted) : ~BigLess(x.k, sorted[i].k)}
        p == IF after = {} THEN 0 ELSE CHOOSE i \in after : \A j \in after : j <= i
    IN SubSeq(sorted, 1, p) \o <<x>> \o SubSeq(sorted, p + 1, Len(sorted))

RECURSIVE StableSort(_, _)
StableSort(items, n) ==
    IF n = 0 THEN <<>> ELSE InsertByHash(StableSort(items, n - 1), items[n])

\* the elements with their sort keys, and the elements of a sorted run
hashed(h, compared) ==
    [i \in 1..Len(compared) |-> [v |-> compared[i], k |-> getOrderIndependentHash(h, compared[i])]]
valuesOf(sorted) == [i \in 1..Len(sorted) |-> sorted[i].v]

\* the sort left out: no call of arr.sort
sortByHashSkipped(h, arr) == [h |-> h, err |-> "none"]

(***************************************************************************)
(* arr.sort((a, b) => getOrderIndependentHash(a) - getOrderIndependentHash(b)) *)
(* Array.prototype.sort moves undefined elements and holes to the end      *)
(* without calling the comparator, and calls it on every other element     *)
(* once there are two of them; the sort is stable.  The hash of a value    *)
(* whose graph holds a cycle recurses without end: the call stack          *)
(* overflows and a RangeError escapes.                                     *)
(***************************************************************************)
sortByHash(h, arr) ==
    LET elems == h[arr.n].elems
        compared == SelectFrom(elems, {elems[i] : i \in 1..Len(elems)} \ {Undefined, Hole}, 1)
        undefineds == SelectFrom(elems, {Undefined}, 1)
        holes == SelectFrom(elems, {Hole}, 1)
    IN IF Len(compared) >= 2 /\ \E i \in 1..Len(compared) : Cyclic(h, compared[i])
       THEN [h |-> h, err |-> "RangeError"]
       ELSE [h |-> [h EXCEPT ![arr.n].elems =
                       (IF Len(compared) < 2 THEN compared
                        ELSE valuesOf(StableSort(hashed(h, compared), Len(compared))))
                       \o undefineds \o holes],
             err |-> "none"]

(***************************************************************************)
(* diffs.js: the change records.  The source file is not among the         *)
(* sources; the record shape follows the documented one ({kind, path, lhs, *)
(* rhs, index, item}), with path left out when it is undefined or empty,   *)
(* as the nested item of the documented example shows.  item holds the     *)
(* nested record of an ArrayChange and is empty otherwise.                 *)
(***************************************************************************)
NoPath == <<>>
NoIndex == 0 - 1
Diff(kind, path, l, r, index, item) ==
    [kind |-> kind, hasPath |-> path # <<>>, path |-> path,
     lhs |-> l, rhs |-> r, index |-> index, item |-> item]
DiffNew(path, value) == Diff("N", path, Undefined, value, NoIndex, <<>>)
DiffDeleted(path, value) == Diff("D", path, value, Undefined, NoIndex, <<>>)
DiffEdit(path, origin, value) == Diff("E", path, origin, value, NoIndex, <<>>)
DiffArray(path, index, item) == Diff("A", path, Undefined, Undefined, index, <<item>>)

(***************************************************************************)
(* The prefilter argument of deepDiff: nothing, a function, or a           *)
(* configuration object with an optional prefilter function and an         *)
(* optional normalize function.  A prefilter function is given by the set  *)
(* of locations path + [key] for which it returns true.                    *)
(***************************************************************************)
Prefilter(form, member, rejects, normalize) ==
    [form |-> form, member |-> member, rejects |-> rejects, normalize |-> normalize]
NoPrefilter == Prefilter("undefined", FALSE, {}, "none")

\* the normalize functions of the model: "falsy" returns a falsy value,
\* "unify" returns [lhs, rhs] with the number 2 replaced by 1 on both sides
Unify(v) == IF v = Num(2) THEN Num(1) ELSE v
NormalizeResult(name, l, r) ==
    IF name = "unify" THEN <<Unify(l), Unify(r)>> ELSE <<>>

NoKey == Null

(***************************************************************************)
(* deepDiff.  The walk threads st = [h, changes, err]: the heap (the       *)
(* order-independent sort reorders the compared arrays in place), the      *)
(* records pushed so far and the exception that escaped, if any.           *)
(***************************************************************************)
\* changes.unshift(change) in place of changes.push(change)
PushFront(st, change) == [st EXCEPT !.changes = <<change>> \o st.changes]
Push(st, change) == [st EXCEPT !.changes = Append(st.changes, change)]

\* lines 55-60 and 62-67: the side is defined
Defined(h, type, stack, side, key) ==
    \/ type # "undefined"
    \/ /\ Len(stack) > 0
       /\ Truthy(stack[Len(stack)][side])
       /\ HasOwn(h, stack[Len(stack)][side], key)

\* lines 90-91: lhs.sort(...) and rhs.sort(...); the second is not reached when
\* the first throws
Sorted(st, s) == [st EXCEPT !.h = s.h, !.err = s.err]
sortInPlace(st, arr) == IF st.err # "none" THEN st ELSE Sorted(st, sortByHash(st.h, arr))
sortBoth(st, l, r) == sortInPlace(sortInPlace(st, l), r)

\* the longer length in place of the shorter: the for loop then revisits the
\* trailing indices
Longer(a, b) == IF a > b THEN a ELSE b

Min(a, b) == IF a < b THEN a ELSE b

RECURSIVE deepDiff(_, _, _, _, _, _, _, _)
RECURSIVE compareTails(_, _, _, _, _, _, _, _, _), compareArrays(_, _, _, _, _, _, _)
RECURSIVE trailingNew(_, _, _, _, _), trailingDeleted(_, _, _, _, _)
RECURSIVE commonElements(_, _, _, _, _, _, _, _)
RECURSIVE leftKeys(_, _, _, _, _, _, _, _, _, _), rightKeys(_, _, _, _, _, _, _, _, _)

\* lines 97-99: while (i > j) push A(currentPath, i, N(undefined, rhs[i--]))
trailingNew(st, r, currentPath, i, j) ==
    IF i > j
    THEN LET next == Push(st, DiffArray(currentPath, i, DiffNew(NoPath, Get(st.h, r, Num(i)))))
         IN Then(next, trailingNew(next, r, currentPath, i - 1, j))
    ELSE st

\* lines 101-103: while (j > i) push A(currentPath, j, D(undefined, lhs[j--]))
trailingDeleted(st, l, currentPath, i, j) ==
    IF j > i
    THEN LET next == Push(st, DiffArray(currentPath, j, DiffDeleted(NoPath, Get(st.h, l, Num(j)))))
         IN Then(next, trailingDeleted(next, l, currentPath, i, j - 1))
    ELSE st

\* lines 105-107: for (; i >= 0; --i) deepDiff(lhs[i], rhs[i], ..., currentPath, i, ...)
commonElements(st, l, r, prefilter, currentPath, i, stack, orderIndependent) ==
    IF i >= 0 /\ st.err = "none"
    THEN LET next == deepDiff(st, Get(st.h, l, Num(i)), Get(st.h, r, Num(i)), prefilter,
                              currentPath, Num(i), stack, orderIndependent)
         IN Then(next, commonElements(next, l, r, prefilter, currentPath, i - 1, stack,
                                      orderIndependent))
    ELSE st

\* lines 112-123: the keys of lhs; consumed holds the positions of pkeys set to null
leftKeys(st, l, r, prefilter, currentPath, akeys, pkeys, i, stack, orderIndependent) ==
    IF i <= Len(akeys) /\ st.st.err = "none"
    THEN LET k == akeys[i]
             candidates == {p \in 1..Len(pkeys) : p \notin st.consumed /\ pkeys[p] = k}
             other == IF candidates = {} THEN 0
                      ELSE CHOOSE p \in candidates : \A q \in candidates : p <= q
             walked == IF other > 0
                       THEN deepDiff(st.st, Get(st.st.h, l, Str(k)), Get(st.st.h, r, Str(k)),
                                     prefilter, currentPath, Str(k), stack, orderIndependent)
                       ELSE deepDiff(st.st, Get(st.st.h, l, Str(k)), Undefined,
                                     prefilter, currentPath, Str(k), stack, orderIndependent)
             next == [st |-> walked,
                      consumed |-> IF other > 0 THEN st.consumed \cup {other} ELSE st.consumed]
         IN Then(next, leftKeys(next, l, r, prefilter, currentPath, akeys, pkeys, i + 1, stack,
                                orderIndependent))
    ELSE st

\* lines 125-131: the keys of rhs that were not consumed; if (k) skips a key
\* that is null or the empty string
rightKeys(st, r, prefilter, currentPath, pkeys, consumed, i, stack, orderIndependent) ==
    IF i <= Len(pkeys) /\ st.err = "none"
    THEN LET k == pkeys[i]
             next == IF i \notin consumed /\ Truthy(Str(k))
                     THEN deepDiff(st, Undefined, Get(st.h, r, Str(k)), prefilter, currentPath,
                                   Str(k), stack, orderIndependent)
                     ELSE st
         IN Then(next, rightKeys(next, r, prefilter, currentPath, pkeys, consumed, i + 1, stack,
                                 orderIndependent))
    ELSE st

\* lines 97-107: the two while loops, then the for loop from the lesser of i and j
compareTails(st, l, r, prefilter, currentPath, i, j, stack, orderIndependent) ==
    commonElements(trailingDeleted(trailingNew(st, r, currentPath, i, j), l, currentPath,
                                   Min(i, j), j),
                   l, r, prefilter, currentPath, Min(i, j), stack, orderIndependent)

\* lines 94-95: i = rhs.length - 1, j = lhs.length - 1
compareArrays(st, l, r, prefilter, currentPath, stack, orderIndependent) ==
    IF st.err # "none" THEN st
    ELSE compareTails(st, l, r, prefilter, currentPath, Len(st.h[r.n].elems) - 1,
                      Len(st.h[l.n].elems) - 1, stack, orderIndependent)

deepDiff(st, lhs0, rhs0, prefilter, path, key, stack, orderIndependent) ==
    LET hasKey == key # Undefined /\ key # Null
        location == Append(path, key)
        \* lines 23-29: the prefilter gate
        filtered ==
            /\ hasKey
            /\ \/ prefilter.form = "function" /\ location \in prefilter.rejects
               \/ prefilter.form = "object" /\ prefilter.member /\ location \in prefilter.rejects
        \* lines 31-38: normalize
        alt == IF hasKey /\ prefilter.form = "object" /\ prefilter.normalize # "none"
               THEN NormalizeResult(prefilter.normalize, lhs0, rhs0)
               ELSE <<>>
        lhs1 == IF alt # <<>> THEN alt[1] ELSE lhs0
        rhs1 == IF alt # <<>> THEN alt[2] ELSE rhs0
        currentPath == IF hasKey THEN location ELSE path
        \* lines 45-48: two regexps are compared as their texts
        bothRegexp == realTypeOf(st.h, lhs1) = "regexp" /\ realTypeOf(st.h, rhs1) = "regexp"
        l == IF bothRegexp THEN Str(st.h[lhs1.n].s) ELSE lhs1
        r == IF bothRegexp THEN Str(st.h[rhs1.n].s) ELSE rhs1
        ltype == TypeOf(l)
        rtype == TypeOf(r)
        ldefined == Defined(st.h, ltype, stack, "lhs", key)
        rdefined == Defined(st.h, rtype, stack, "rhs", key)
        \* lhs - rhs !== 0 for two dates
        datesDiffer == LET a == st.h[l.n]
                           b == st.h[r.n]
                       IN a.s = "NaN" \/ b.s = "NaN" \/ a.n # b.n
        \* lines 78-83: the scan of the stack for lhs
        other == \E i \in 1..Len(stack) : StrictEq(stack[i].lhs, l)
    IN IF st.err # "none" \/ filtered THEN st
       ELSE IF ~ldefined /\ rdefined THEN Push(st, DiffNew(currentPath, r))
       ELSE IF ~rdefined /\ ldefined THEN Push(st, DiffDeleted(currentPath, l))
       ELSE IF realTypeOf(st.h, l) # realTypeOf(st.h, r) THEN Push(st, DiffEdit(currentPath, l, r))
       ELSE IF realTypeOf(st.h, l) = "date" /\ datesDiffer THEN Push(st, DiffEdit(currentPath, l, r))
       ELSE IF ltype = "object" /\ l # Null /\ r # Null
       THEN IF ~other
            THEN LET inner == Append(stack, [lhs |-> l, rhs |-> r])
                 IN IF IsArray(st.h, l)
                    THEN compareArrays(IF orderIndependent THEN sortBoth(st, l, r) ELSE st,
                                       l, r, prefilter, currentPath, inner, orderIndependent)
                    ELSE LET akeys == st.h[l.n].keys
                             pkeys == st.h[r.n].keys
                             left == leftKeys([st |-> st, consumed |-> {}], l, r, prefilter,
                                              currentPath, akeys, pkeys, 1, inner,
                                              orderIndependent)
                         IN rightKeys(left.st, r, prefilter, currentPath, pkeys, left.consumed,
                                      1, inner, orderIndependent)
            ELSE IF ~StrictEq(l, r) THEN Push(st, DiffEdit(currentPath, l, r)) ELSE st
       ELSE IF ~StrictEq(l, r)
       THEN IF ~(ltype = "number" /\ l.s = "NaN" /\ r.s = "NaN")
            THEN Push(st, DiffEdit(currentPath, l, r))
            ELSE st
       ELSE st

(***************************************************************************)
(* observableDiff and diff.  An options argument is an object, a function  *)
(* (the documented backward-compatible form) or absent; reading a property *)
(* of a function or of the default {} yields undefined.  accKey is the     *)
(* name under which the caller's accumulator is passed, "none" if it is    *)
(* not.                                                                    *)
(***************************************************************************)
Options(shape, prefilter, accKey, orderIndependent) ==
    [shape |-> shape, prefilter |-> prefilter, accKey |-> accKey,
     orderIndependent |-> orderIndependent]
NoOptions == Options("undefined", NoPrefilter, "none", FALSE)

\* const { prefilter, accummulator, orderIndependent } = options
OptionPrefilter(opts) == IF opts.shape = "object" THEN opts.prefilter ELSE NoPrefilter
OptionAccummulator(opts) == opts.shape = "object" /\ opts.accKey = "accummulator"
OptionOrderIndependent(opts) == opts.shape = "object" /\ opts.orderIndependent

\* observableDiff(lhs, rhs, observer, {prefilter, orderIndependent}): the walk;
\* the observer is called afterwards, once for each record (see the callers)
observableDiff(h, l, r, prefilter, orderIndependent) ==
    deepDiff([h |-> h, changes |-> <<>>, err |-> "none"], l, r, prefilter,
             <<>>, NoKey, <<>>, orderIndependent)

\* diff(lhs, rhs, options): the state after the walk, the accumulator after
\* the observer calls, and what is returned
diffResult(st, accummulator, accumulator) ==
    [st |-> st,
     acc |-> IF accummulator /\ st.err = "none" THEN accumulator \o st.changes
             ELSE accumulator,
     returned |-> IF st.err # "none" THEN "none"
                  ELSE IF accummulator THEN "acc"
                  ELSE IF Len(st.changes) > 0 THEN "changes"
                  ELSE "undefined"]

diff(h, l, r, opts, accumulator) ==
    diffResult(observableDiff(h, l, r, OptionPrefilter(opts), OptionOrderIndependent(opts)),
               OptionAccummulator(opts), accumulator)

(***************************************************************************)
(* The replay engine.  Every operator returns [h, err]: the heap           *)
(* afterwards and "TypeError" when the code reads a property of undefined  *)
(* or null, or assigns a property of a primitive.                          *)
(***************************************************************************)
Ok(h) == [h |-> h, err |-> "none"]
TypeError(h) == [h |-> h, err |-> "TypeError"]

\* change.path[i], undefined beyond the end
PathAt(change, i) ==
    IF i >= 0 /\ i < Len(change.path) THEN change.path[i + 1] ELSE Undefined

\* for (let i = 0; i < u; i++) it = it[change.path[i]]
RECURSIVE follow(_, _, _, _, _)
follow(h, it, change, i, u) ==
    IF i >= u THEN [v |-> it, err |-> "none"]
    ELSE IF ReadThrows(it) THEN [v |-> it, err |-> "TypeError"]
    ELSE follow(h, Get(h, it, PathAt(change, i)), change, i + 1, u)

\* arr = arrayRemove(arr, index): arr.slice, arr.length = and arr.push on arr
removeElement(h, arr, index) ==
    IF ~IsArray(h, arr) \/ ~IsIndex(index) THEN TypeError(h)
    ELSE Ok([h EXCEPT ![arr.n].elems = arrayRemove(h[arr.n].elems, index.n)])

\* the nested record of an ArrayChange, or nothing
ItemOf(change) == change.item

RECURSIVE applyArrayChange(_, _, _, _)
applyArrayChange(h, arr, index, item) ==
    IF item = <<>> THEN TypeError(h)
    ELSE LET change == item[1]
             i == Len(change.path) - 1
         IN IF change.hasPath /\ Len(change.path) > 0
            THEN IF ReadThrows(arr) THEN TypeError(h)
                 ELSE LET at == follow(h, Get(h, arr, index), change, 0, i)
                          it == at.v
                          k == PathAt(change, i)
                      IN IF at.err # "none" THEN TypeError(h)
                         ELSE CASE change.kind = "A" ->
                                     IF ReadThrows(it) THEN TypeError(h)
                                     ELSE applyArrayChange(h, Get(h, it, k), Num(change.index),
                                                           ItemOf(change))
                                [] change.kind = "D" -> Delete(h, it, k)
                                [] change.kind \in {"E", "N"} ->
                                     IF ReadThrows(it) THEN TypeError(h)
                                     ELSE Put(h, it, k, change.rhs)
                                [] OTHER -> Ok(h)
            ELSE CASE change.kind = "A" ->
                        IF ReadThrows(arr) THEN TypeError(h)
                        ELSE applyArrayChange(h, Get(h, arr, index), Num(change.index),
                                              ItemOf(change))
                   [] change.kind = "D" -> removeElement(h, arr, index)
                   [] change.kind \in {"E", "N"} ->
                        IF ReadThrows(arr) THEN TypeError(h) ELSE Put(h, arr, index, change.rhs)
                   [] OTHER -> Ok(h)

RECURSIVE revertArrayChange(_, _, _, _)
revertArrayChange(h, arr, index, item) ==
    IF item = <<>> THEN TypeError(h)
    ELSE LET change == item[1]
             i == Len(change.path) - 1
         IN IF change.hasPath /\ Len(change.path) > 0
            THEN IF ReadThrows(arr) THEN TypeError(h)
                 ELSE LET at == follow(h, Get(h, arr, index), change, 0, i)
                          it == at.v
                          k == PathAt(change, i)
                      IN IF at.err # "none" THEN TypeError(h)
                         ELSE CASE change.kind = "A" ->
                                     IF ReadThrows(it) THEN TypeError(h)
                                     ELSE revertArrayChange(h, Get(h, it, k), Num(change.index),
                                                            ItemOf(change))
                                [] change.kind \in {"D", "E"} ->
                                     IF ReadThrows(it) THEN TypeError(h)
                                     ELSE Put(h, it, k, change.lhs)
                                [] change.kind = "N" -> Delete(h, it, k)
                                [] OTHER -> Ok(h)
            ELSE CASE change.kind = "A" ->
                        IF ReadThrows(arr) THEN TypeError(h)
                        ELSE revertArrayChange(h, Get(h, arr, index), Num(change.index),
                                               ItemOf(change))
                   [] change.kind \in {"D", "E"} ->
                        IF ReadThrows(arr) THEN TypeError(h) ELSE Put(h, arr, index, change.lhs)
                   [] change.kind = "N" -> removeElement(h, arr, index)
                   [] OTHER -> Ok(h)

(***************************************************************************)
(* The arguments of applyChange and revertChange are a value, a change     *)
(* record, or nothing (undefined).                                         *)
(***************************************************************************)
ValueArg(v) == [a |-> "value", v |-> v, c |-> <<>>]
ChangeArg(c) == [a |-> "change", v |-> Undefined, c |-> <<c>>]
NoArg == ValueArg(Undefined)
ArgTruthy(x) == x.a = "change" \/ Truthy(x.v)
validKinds == {"N", "E", "A", "D"}

\* lines 318-325: while (++i < last), creating the missing intermediates
RECURSIVE applyDescend(_, _, _, _, _)
applyDescend(h, it, change, i, last) ==
    IF i >= last THEN [h |-> h, v |-> it, err |-> "none"]
    ELSE IF ReadThrows(it) THEN [h |-> h, v |-> it, err |-> "TypeError"]
    ELSE LET k == PathAt(change, i)
             missing == TypeOf(Get(h, it, k)) = "undefined"
             fresh == Alloc(h, IF TypeOf(PathAt(change, i + 1)) = "number"
                               THEN ArrayObj(<<>>) ELSE PlainObj(<<>>, <<>>))
             put == IF missing THEN Put(fresh.h, it, k, fresh.v) ELSE Ok(h)
         IN IF put.err # "none" THEN [h |-> h, v |-> it, err |-> "TypeError"]
            ELSE applyDescend(put.h, Get(put.h, it, k), change, i + 1, last)

applyChange(h, target, source, change0) ==
    LET change == IF change0 = NoArg /\ source.a = "change" /\ source.c[1].kind \in validKinds
                  THEN source ELSE change0
    IN IF ~(Truthy(target) /\ change.a = "change" /\ change.c[1].kind # "")
       THEN Ok(h)
       ELSE LET c == change.c[1]
                last == IF c.hasPath THEN Len(c.path) - 1 ELSE 0
                at == applyDescend(h, target, c, 0, last)
                i == IF last > 0 THEN last ELSE 0
                it == at.v
                k == PathAt(c, i)
            IN IF at.err # "none" THEN TypeError(at.h)
               ELSE CASE c.kind = "A" ->
                           IF c.hasPath /\ ReadThrows(it) THEN TypeError(at.h)
                           ELSE LET fresh == Alloc(at.h, ArrayObj(<<>>))
                                    put == IF c.hasPath /\ TypeOf(Get(at.h, it, k)) = "undefined"
                                           THEN Put(fresh.h, it, k, fresh.v)
                                           ELSE Ok(at.h)
                                IN IF put.err # "none" THEN put
                                   ELSE applyArrayChange(put.h,
                                            IF c.hasPath THEN Get(put.h, it, k) ELSE it,
                                            Num(c.index), ItemOf(c))
                      [] c.kind = "D" ->
                           IF ~c.hasPath THEN TypeError(at.h) ELSE Delete(at.h, it, k)
                      [] c.kind \in {"E", "N"} ->
                           IF ~c.hasPath \/ ReadThrows(it) THEN TypeError(at.h)
                           ELSE Put(at.h, it, k, c.rhs)
                      [] OTHER -> Ok(at.h)

\* lines 377-383: the descent of revertChange, creating mappings only
RECURSIVE revertDescend(_, _, _, _, _)
revertDescend(h, it, change, i, u) ==
    IF i >= u THEN [h |-> h, v |-> it, err |-> "none"]
    ELSE IF ReadThrows(it) THEN [h |-> h, v |-> it, err |-> "TypeError"]
    ELSE LET k == PathAt(change, i)
             missing == TypeOf(Get(h, it, k)) = "undefined"
             fresh == Alloc(h, PlainObj(<<>>, <<>>))
             put == IF missing THEN Put(fresh.h, it, k, fresh.v) ELSE Ok(h)
         IN IF put.err # "none" THEN [h |-> h, v |-> it, err |-> "TypeError"]
            ELSE revertDescend(put.h, Get(put.h, it, k), change, i + 1, u)

revertChange(h, target, source, change) ==
    IF ~(Truthy(target) /\ ArgTruthy(source) /\ change.a = "change" /\ change.c[1].kind # "")
    THEN Ok(h)
    ELSE LET c == change.c[1]
             i == Len(c.path) - 1
             at == revertDescend(h, target, c, 0, i)
             it == at.v
             k == PathAt(c, i)
         IN IF ~c.hasPath \/ at.err # "none" THEN TypeError(h)
            ELSE CASE c.kind = "A" ->
                        IF ReadThrows(it) THEN TypeError(at.h)
                        ELSE revertArrayChange(at.h, Get(at.h, it, k), Num(c.index), ItemOf(c))
                   [] c.kind \in {"D", "E"} ->
                        IF ReadThrows(it) THEN TypeError(at.h) ELSE Put(at.h, it, k, c.lhs)
                   [] c.kind = "N" -> Delete(at.h, it, k)
                   [] OTHER -> Ok(at.h)

(***************************************************************************)
(* The values the callers pass.  A term describes a value; Build lays it   *)
(* out on the heap.  TBack(up) is a reference to the enclosing container   *)
(* up levels above, which is how a term describes a reference cycle.       *)
(***************************************************************************)
Term(c, v, keys, kids) == [c |-> c, v |-> v, keys |-> keys, kids |-> kids]
TLeaf(v) == Term("leaf", v, <<>>, <<>>)
TArr(kids) == Term("array", Undefined, <<>>, kids)
TObj(keys, kids) == Term("object", Undefined, keys, kids)
TBack(up) == Term("back", Num(up), <<>>, <<>>)
TDate(n, s) == Term("date", Prim("date", n, s), <<>>, <<>>)
TRegExp(s) == Term("regexp", Str(s), <<>>, <<>>)

RECURSIVE Build(_, _, _), BuildKids(_, _, _, _)
Build(h, term, ancestors) ==
    CASE term.c = "leaf" -> [h |-> h, v |-> term.v]
      [] term.c = "back" -> [h |-> h, v |-> Ref(ancestors[Len(ancestors) + 1 - term.v.n])]
      [] term.c = "date" -> Alloc(h, DateObj(term.v.n, term.v.s))
      [] term.c = "regexp" -> Alloc(h, RegExpObj(term.v.s))
      [] OTHER ->
            LET a == Len(h) + 1
                built == BuildKids(Append(h, ArrayObj(<<>>)), term.kids, 1, Append(ancestors, a))
                o == IF term.c = "array" THEN ArrayObj(built.vals)
                     ELSE PlainObj(term.keys, built.vals)
            IN [h |-> [built.h EXCEPT ![a] = o], v |-> Ref(a)]

BuildKids(h, kids, i, ancestors) ==
    IF i > Len(kids) THEN [h |-> h, vals |-> <<>>]
    ELSE LET first == Build(h, kids[i], ancestors)
             rest == BuildKids(first.h, kids, i + 1, ancestors)
         IN [h |-> rest.h, vals |-> <<first.v>> \o rest.vals]

\* bounds of the generated values
MaxLen == 3
MaxObjs == 2

SeqsUpTo(S, n) == UNION {[1..k -> S] : k \in 0..n}
SeqsFrom(S, m, n) == UNION {[1..k -> S] : k \in m..n}

Keys == {"", "a"}
KeyOrders == {ks \in SeqsUpTo(Keys, Cardinality(Keys)) :
                 \A i, j \in 1..Len(ks) : i # j => ks[i] # ks[j]}

NumberLeaves == {TLeaf(Num(1)), TLeaf(Num(2))}
ScalarLeaves == NumberLeaves \cup {TLeaf(Undefined)}
FlatArrays == {TArr(e) : e \in SeqsUpTo(NumberLeaves, MaxLen)}
FlatObjects == UNION {{TObj(ks, vs) : vs \in [1..Len(ks) -> ScalarLeaves]} : ks \in KeyOrders}
ObjectElements == {TObj(<<>>, <<>>), TObj(<<"a">>, <<TLeaf(Num(1))>>)}
NestedTerms ==
    {TObj(<<"a">>, <<t>>) : t \in FlatArrays}
    \cup {TArr(e) : e \in SeqsFrom(ObjectElements, 1, MaxObjs)}
    \cup {TArr(<<TArr(<<TLeaf(Num(1))>>)>>), TArr(<<TArr(<<>>), TLeaf(Num(1))>>)}
CyclicTerms ==
    {TObj(<<"self">>, <<TBack(1)>>),
     TObj(<<"a", "self">>, <<TLeaf(Num(1)), TBack(1)>>),
     TObj(<<"a">>, <<TArr(<<TBack(2)>>)>>),
     TArr(<<TBack(1)>>)}
ExoticTerms ==
    {TDate(0, ""), TDate(1, ""), TDate(0, "NaN"), TRegExp("/x/"), TRegExp("/y/"),
     TLeaf(NaN), TLeaf(Null)}

\* the values of the replay specification
Universe ==
    ScalarLeaves \cup FlatArrays \cup FlatObjects \cup NestedTerms \cup CyclicTerms
    \cup ExoticTerms

(***************************************************************************)
(* The caller's script: diff(lhs, rhs, options); then every record applied *)
(* in emission order to the copy of lhs and the copy compared with rhs;    *)
(* then every record reverted in the same order and the copy compared with *)
(* lhs.                                                                    *)
(***************************************************************************)
\* An observer: absent, one that only records its calls ("record"), or
\* applyDiff's onChange, which applies to the target the records its filter
\* accepts.  A filter is given by the locations whose records it rejects.
Observer(kind, filtered, rejects) ==
    [kind |-> kind, filtered |-> filtered, rejects |-> rejects]

NoObserver == Observer("absent", FALSE, {})

Built(tl, tr, same, opts, accumulator) ==
    LET b1 == Build(<<>>, tl, <<>>)
        b2 == IF same THEN b1 ELSE Build(b1.h, tr, <<>>)
        b3 == Build(b2.h, tl, <<>>)
    IN /\ heap = b3.h
       /\ lhs = b1.v
       /\ rhs = b2.v
       /\ copy = b3.v
       /\ options = opts
       /\ acc = accumulator
       /\ changes = <<>>
       /\ returned = "none"
       /\ residual = <<>>
       /\ idx = 1
       /\ err = "none"
       /\ pc = "start"

Setup(tl, tr, same, opts, accumulator) ==
    /\ Built(tl, tr, same, opts, accumulator)
    /\ observer = NoObserver

Init ==
    \E tl \in Universe, tr \in Universe, same \in BOOLEAN :
        /\ same => tr = tl
        /\ Setup(tl, tr, same, NoOptions, <<>>)

\* the state after a call of diff that gave d
Diffed(d) ==
    /\ heap' = d.st.h
    /\ changes' = d.st.changes
    /\ err' = d.st.err
    /\ acc' = d.acc
    /\ returned' = d.returned
    /\ pc' = IF d.st.err = "none" THEN "diffed" ELSE "threw"

CallDiff ==
    /\ pc = "start"
    /\ Diffed(diff(heap, lhs, rhs, options, acc))
    /\ UNCHANGED <<observer, lhs, rhs, copy, options, residual, idx>>

\* the state after a replay step that gave a; it ends in threw on an error
Replayed(a, threw) ==
    /\ heap' = a.h
    /\ err' = a.err
    /\ pc' = IF a.err = "none" THEN pc ELSE threw

ApplyChange ==
    /\ pc = "diffed"
    /\ idx <= Len(changes)
    /\ Replayed(applyChange(heap, copy, ValueArg(rhs), ChangeArg(changes[idx])), "applyThrew")
    /\ idx' = idx + 1
    /\ UNCHANGED <<observer, lhs, rhs, copy, options, acc, changes, returned, residual>>

\* the state after the copy was compared with a side, which gave d
Verified(d) ==
    /\ heap' = d.st.h
    /\ residual' = d.st.changes

VerifyApplied ==
    /\ pc = "diffed"
    /\ idx > Len(changes)
    /\ Verified(diff(heap, copy, rhs, NoOptions, <<>>))
    /\ idx' = 1
    /\ pc' = "applied"
    /\ UNCHANGED <<observer, lhs, rhs, copy, options, acc, changes, returned, err>>

RevertChange ==
    /\ pc = "applied"
    /\ idx <= Len(changes)
    /\ Replayed(revertChange(heap, copy, ValueArg(rhs), ChangeArg(changes[idx])), "revertThrew")
    /\ idx' = idx + 1
    /\ UNCHANGED <<observer, lhs, rhs, copy, options, acc, changes, returned, residual>>

VerifyReverted ==
    /\ pc = "applied"
    /\ idx > Len(changes)
    /\ Verified(diff(heap, copy, lhs, NoOptions, <<>>))
    /\ pc' = "reverted"
    /\ UNCHANGED <<observer, lhs, rhs, copy, options, acc, changes, returned, idx, err>>

Next == CallDiff \/ ApplyChange \/ VerifyApplied \/ RevertChange \/ VerifyReverted

Spec == Init /\ [][Next]_vars

(***************************************************************************)
(* Properties of the replay specification Spec.                            *)
(***************************************************************************)

\* a value built of mappings, sequences and scalars only, without a cycle
PlainValue(h, v) ==
    /\ ~Cyclic(h, v)
    /\ \A a \in Reach(h, v) : h[a].kind \in {"array", "object"}

PlainInputs == PlainValue(heap, lhs) /\ PlainValue(heap, rhs)

\* both roots are mappings, both are sequences, or they are the same scalar
RootsAlike ==
    \/ IsRef(lhs) /\ IsRef(rhs) /\ heap[lhs.n].kind = heap[rhs.n].kind
    \/ ~IsRef(lhs) /\ ~IsRef(rhs) /\ lhs = rhs

\* C1 (as stated): for all lhs and rhs built of mappings, sequences and
\* scalars, applying every record of diff(lhs, rhs), in emission order, to a
\* deep copy of lhs completes and leaves a value that diff finds equal to rhs,
\* also when the roots differ in kind.
C1_RoundTrip ==
    PlainInputs => /\ pc # "applyThrew"
                   /\ pc = "applied" => residual = <<>>

\* C1 (amended): the same, for lhs and rhs whose roots are both mappings, both
\* sequences, or the same scalar.
C1_RoundTripAlikeRoots ==
    (PlainInputs /\ RootsAlike) => /\ pc # "applyThrew"
                                   /\ pc = "applied" => residual = <<>>

\* two root sequences of different lengths and contents, every record applied
C1_Witness ==
    /\ pc = "applied"
    /\ PlainInputs
    /\ IsArray(heap, lhs) /\ IsArray(heap, rhs)
    /\ Len(changes) >= 3
    /\ \E i \in 1..Len(changes) : changes[i].kind = "A" /\ ~changes[i].hasPath
    /\ \E i \in 1..Len(changes) : changes[i].kind = "E"
    /\ residual = <<>>

\* C2: for all lhs and rhs built of mappings, sequences and scalars, after
\* every record has been applied to the copy, reverting every record in the
\* same order completes and leaves a value that diff finds equal to lhs.
C2_RevertInvertsApply ==
    PlainInputs => /\ pc # "revertThrew"
                   /\ pc = "reverted" => residual = <<>>

\* C3: diff(x, x) returns the no-differences sentinel for every x, and diff
\* returns a sequence exactly when at least one record was emitted.
C3_NoOpOnEqualInputs ==
    pc \notin {"start", "threw"} =>
        /\ lhs = rhs => returned = "undefined"
        /\ returned = "changes" <=> Len(changes) > 0
        /\ returned \in {"changes", "undefined"}

\* v is a mapping whose member self is v
SelfLoop(h, v) ==
    /\ IsRef(v)
    /\ h[v.n].kind = "object"
    /\ HasOwn(h, v, Str("self"))
    /\ Get(h, v, Str("self")) = v

\* C4: two distinct mappings a and b with a.self = a and b.self = b, and
\* otherwise equal members, are reported equal: diff completes and emits
\* nothing.
C4_CycleSafety ==
    (/\ pc # "start"
     /\ lhs # rhs
     /\ SelfLoop(heap, lhs) /\ SelfLoop(heap, rhs)
     /\ heap[lhs.n].keys = heap[rhs.n].keys
     /\ \A i \in 1..Len(heap[lhs.n].keys) :
            heap[lhs.n].keys[i] # "self" => heap[lhs.n].vals[i] = heap[rhs.n].vals[i])
    => /\ pc # "threw"
       /\ changes = <<>>

\* where a record locates its change: path, with the index for an ArrayChange
Loc(c) == IF c.kind = "A" THEN Append(c.path, Num(c.index)) ELSE c.path

IsPrefix(p, q) == Len(p) <= Len(q) /\ SubSeq(q, 1, Len(p)) = p

\* a and b are the same scalar, or sequences or mappings with equal members
RECURSIVE SameContent(_, _, _)
SameContent(h, a, b) ==
    IF ~IsRef(a) \/ ~IsRef(b) THEN a = b
    ELSE LET x == h[a.n]
             y == h[b.n]
         IN /\ x.kind = y.kind
            /\ x.kind \in {"array", "object"}
            /\ Len(x.elems) = Len(y.elems)
            /\ \A i \in 1..Len(x.elems) : SameContent(h, x.elems[i], y.elems[i])
            /\ {x.keys[i] : i \in 1..Len(x.keys)} = {y.keys[i] : i \in 1..Len(y.keys)}
            /\ \A i \in 1..Len(x.keys) :
                   SameContent(h, x.vals[i], Get(h, b, Str(x.keys[i])))

\* the pairs of sequences that the walk compares, each with its path
RECURSIVE Compared(_, _, _, _, _)
Compared(h, l, r, path, seen) ==
    IF ~IsRef(l) \/ ~IsRef(r) THEN {}
    ELSE IF h[l.n].kind # h[r.n].kind \/ h[l.n].kind \notin {"array", "object"} \/ l.n \in seen
    THEN {}
    ELSE IF h[l.n].kind = "array"
    THEN {[path |-> path, l |-> l, r |-> r]}
         \cup UNION {Compared(h, Get(h, l, Num(i)), Get(h, r, Num(i)), Append(path, Num(i)),
                              seen \cup {l.n}) :
                        i \in 0..(Min(Len(h[l.n].elems), Len(h[r.n].elems)) - 1)}
    ELSE UNION {Compared(h, Get(h, l, Str(k)), Get(h, r, Str(k)), Append(path, Str(k)),
                         seen \cup {l.n}) :
                   k \in {h[l.n].keys[i] : i \in 1..Len(h[l.n].keys)}
                         \cap {h[r.n].keys[i] : i \in 1..Len(h[r.n].keys)}}

Under(path, c) == IsPrefix(path, Loc(c)) /\ Len(Loc(c)) > Len(path)

\* the tail policy at one compared pair of sequences
TailPolicy(h, site, emitted) ==
    LET l == h[site.l.n].elems
        r == h[site.r.n].elems
        L == Len(l)
        R == Len(r)
        k == IF R > L THEN R - L ELSE L - R
        recs == SelectSeq(emitted, LAMBDA c : Under(site.path, c))
        at(n) == Loc(recs[n])[Len(site.path) + 1]
    IN /\ Len(recs) >= k
       /\ \A n \in 1..k :
             recs[n] = IF R > L
                       THEN DiffArray(site.path, R - n, DiffNew(NoPath, r[R - n + 1]))
                       ELSE DiffArray(site.path, L - n, DiffDeleted(NoPath, l[L - n + 1]))
       /\ \A n \in (k + 1)..Len(recs) : IsIndex(at(n)) /\ at(n).n < Min(L, R)
       /\ \A n1, n2 \in (k + 1)..Len(recs) : n1 < n2 => at(n1).n >= at(n2).n
       /\ \A i \in 1..Min(L, R) :
             (~Cyclic(h, l[i]) /\ ~Cyclic(h, r[i]) /\ SameContent(h, l[i], r[i]))
             => \A n \in (k + 1)..Len(recs) : at(n).n # i - 1

OrderElements ==
    {TLeaf(Num(1)), TLeaf(Num(2)), TLeaf(Str("Aa")), TLeaf(Str("BB")), TLeaf(Undefined),
     TObj(<<"self">>, <<TBack(1)>>)}

OrderOptions ==
    {NoOptions} \cup {Options("object", NoPrefilter, "none", oi) : oi \in BOOLEAN}

InitOrder ==
    \E e \in SeqsUpTo(OrderElements, MaxLen), opts \in OrderOptions :
        \E p \in Permutations(1..Len(e)) :
            Setup(TArr(e), TArr([i \in 1..Len(e) |-> e[p[i]]]), FALSE, opts, <<>>)

SpecOrder == InitOrder /\ [][CallDiff]_vars

(***************************************************************************)
(* The options specification: diff with a prefilter (as a function or as a *)
(* configuration object, under options.prefilter or in place of the        *)
(* options), with and without an accumulator.                              *)
(***************************************************************************)
MaxFilterLen == 2

FilterArrays == {TArr(e) : e \in SeqsUpTo(NumberLeaves, MaxFilterLen)}
FilterUniverse ==
    FilterArrays
    \cup {TObj(<<"a">>, <<t>>) : t \in FilterArrays}
    \cup {TObj(<<>>, <<>>), TObj(<<"a">>, <<TLeaf(Num(1))>>), TObj(<<"a">>, <<TLeaf(Num(2))>>)}

RejectSets ==
    {{}, {<<Str("a")>>}, {<<Num(0)>>}, {<<Num(1)>>}, {<<Str("a"), Num(0)>>},
     {<<Str("a"), Num(1)>>}}

Prefilters ==
    {NoPrefilter}
    \cup {Prefilter("function", FALSE, rj, "none") : rj \in RejectSets}
    \cup {Prefilter("object", TRUE, rj, nm) : rj \in RejectSets, nm \in {"none", "unify"}}
    \cup {Prefilter("object", FALSE, {}, nm) : nm \in {"none", "falsy", "unify"}}

FilterOptions ==
    {NoOptions}
    \cup {Options("function", Prefilter("function", FALSE, rj, "none"), "none", FALSE) :
             rj \in RejectSets}
    \cup {Options("object", pf, "none", FALSE) : pf \in Prefilters}
    \cup {Options("object", pf, k, FALSE) :
             pf \in {NoPrefilter, Prefilter("function", FALSE, {<<Str("a")>>}, "none")},
             k \in {"accumulator", "accummulator"}}

InitOptions ==
    \E tl \in FilterUniverse, tr \in FilterUniverse, opts \in FilterOptions :
        Setup(tl, tr, FALSE, opts, <<>>)

SpecOptions == InitOptions /\ [][CallDiff]_vars

(***************************************************************************)
(* Properties of the order specification SpecOrder.                        *)
(***************************************************************************)

\* C5: for all lhs and rhs, with cycles on either side, and for
\* orderIndependent false and true, the walk returns without an exception.
C5_TerminatesOnCycles ==
    pc # "start" => pc = "diffed" /\ err = "none"

ElementsOf(v) == heap[v.n].elems

Count(seq, x) == Cardinality({i \in 1..Len(seq) : seq[i] = x})

\* lhs and rhs are sequences of scalars, each a permutation of the other
ScalarPermutations ==
    /\ IsArray(heap, lhs) /\ IsArray(heap, rhs)
    /\ Len(ElementsOf(lhs)) = Len(ElementsOf(rhs))
    /\ \A i \in 1..Len(ElementsOf(lhs)) :
          /\ ~IsRef(ElementsOf(lhs)[i]) /\ ~IsRef(ElementsOf(rhs)[i])
          /\ Count(ElementsOf(lhs), ElementsOf(lhs)[i]) = Count(ElementsOf(rhs), ElementsOf(lhs)[i])

\* one Edited record for each index where the two sequences differ
EditedPerIndex ==
    LET l == ElementsOf(lhs)
        r == ElementsOf(rhs)
        differing == {i \in 1..Len(l) : l[i] # r[i]}
    IN /\ Len(changes) = Cardinality(differing)
       /\ \A i \in differing :
             \E n \in 1..Len(changes) : changes[n] = DiffEdit(<<Num(i - 1)>>, l[i], r[i])

\* no two different elements of the sequence have the same hash
DistinctHashes(v) ==
    \A i, j \in 1..Len(ElementsOf(v)) :
        ElementsOf(v)[i] # ElementsOf(v)[j]
        => getOrderIndependentHash(heap, ElementsOf(v)[i])
           # getOrderIndependentHash(heap, ElementsOf(v)[j])

\* C7 (as stated): for two sequences of scalars that are permutations of one
\* another, diff with orderIndependent true reports no differences, and with
\* orderIndependent absent or false reports one Edited record for each index
\* where the values differ.
C7_OrderIndependence ==
    (pc = "diffed" /\ ScalarPermutations) =>
        IF OptionOrderIndependent(options) THEN changes = <<>> ELSE EditedPerIndex

\* C7 (amended): the same, where with orderIndependent true no two different
\* elements have the same hash.
C7_OrderIndependenceDistinctHashes ==
    (pc = "diffed" /\ ScalarPermutations) =>
        IF OptionOrderIndependent(options)
        THEN DistinctHashes(lhs) => changes = <<>>
        ELSE EditedPerIndex

\* orderIndependent true on sequences of three different scalars
C7_Witness ==
    /\ pc = "diffed"
    /\ OptionOrderIndependent(options)
    /\ ScalarPermutations
    /\ DistinctHashes(lhs)
    /\ Cardinality({ElementsOf(lhs)[i] : i \in 1..Len(ElementsOf(lhs))}) >= 3
    /\ changes = <<>>

(***************************************************************************)
(* Properties of the options specification SpecOptions.                    *)
(***************************************************************************)

\* the prefilter function passed under options.prefilter, as a function or as
\* the prefilter member of a configuration object
PrefilterGiven ==
    /\ options.shape = "object"
    /\ \/ options.prefilter.form = "function"
       \/ options.prefilter.form = "object" /\ options.prefilter.member

\* C8: when the prefilter returns true for (path, key), no emitted record
\* locates a change at or below path + [key], an ArrayChange with path p and
\* index i being located at p + [i].
C8_PrefilterSuppression ==
    (pc = "diffed" /\ PrefilterGiven) =>
        \A n \in 1..Len(changes) :
            \A location \in options.prefilter.rejects : ~IsPrefix(location, Loc(changes[n]))

\* C9: when options.accumulator is passed, every emitted record is pushed to
\* it and diff returns that accumulator.
C9_AccumulatorContract ==
    (pc = "diffed" /\ options.shape = "object" /\ options.accKey = "accumulator") =>
        /\ returned = "acc"
        /\ acc = changes

\* C10: diff(lhs, rhs, f) with a function f gives the result of
\* diff(lhs, rhs, {prefilter: f}).
C10_FunctionAsOptions ==
    (pc = "diffed" /\ options.shape = "function") =>
        LET d == diff(heap, lhs, rhs, Options("object", options.prefilter, "none", FALSE), <<>>)
        IN /\ changes = d.st.changes
           /\ returned = d.returned

(***************************************************************************)
(* The source specification: the replay of Spec with the source argument   *)
(* of applyChange and revertChange varied: rhs, lhs, undefined, or left    *)
(* out in the two-argument form f(target, change).                         *)
(***************************************************************************)
SourceForms == {"rhs", "lhs", "undefined", "two"}

\* the second and third arguments of the call: (source, change), or (change)
\* alone in the two-argument form
SourceArg(form, change) ==
    IF form = "two" THEN ChangeArg(change)
    ELSE IF form = "rhs" THEN ValueArg(rhs)
    ELSE IF form = "lhs" THEN ValueArg(lhs)
    ELSE NoArg
ThirdArg(form, change) == IF form = "two" THEN NoArg ELSE ChangeArg(change)

\* applyChange(copy, source, change), or applyChange(copy, change)
applyCall(form, change) ==
    applyChange(heap, copy, SourceArg(form, change), ThirdArg(form, change))

\* revertChange(copy, source, change), or revertChange(copy, change)
revertCall(form, change) ==
    revertChange(heap, copy, SourceArg(form, change), ThirdArg(form, change))

SourceUniverse == FlatArrays \cup FlatObjects \cup NestedTerms

InitSource ==
    \E tl \in SourceUniverse, tr \in SourceUniverse : Setup(tl, tr, FALSE, NoOptions, <<>>)

ApplyChangeFrom ==
    /\ pc = "diffed"
    /\ idx <= Len(changes)
    /\ \E form \in SourceForms : Replayed(applyCall(form, changes[idx]), "applyThrew")
    /\ idx' = idx + 1
    /\ UNCHANGED <<observer, lhs, rhs, copy, options, acc, changes, returned, residual>>

RevertChangeFrom ==
    /\ pc = "applied"
    /\ idx <= Len(changes)
    /\ \E form \in SourceForms : Replayed(revertCall(form, changes[idx]), "revertThrew")
    /\ idx' = idx + 1
    /\ UNCHANGED <<observer, lhs, rhs, copy, options, acc, changes, returned, residual>>

NextSource ==
    CallDiff \/ ApplyChangeFrom \/ VerifyApplied \/ RevertChangeFrom \/ VerifyReverted

SpecSource == InitSource /\ [][NextSource]_vars

(***************************************************************************)
(* Properties of the source specification SpecSource.                      *)
(***************************************************************************)

\* C11: the effect of revertChange(target, source, change) on target is the
\* same for every source, undefined included, and that of the two-argument
\* form revertChange(target, change) is the same again.
C11_RevertIgnoresSource ==
    (pc = "applied" /\ idx <= Len(changes)) =>
        \A form \in SourceForms : revertCall(form, changes[idx]) = revertCall("rhs", changes[idx])


(***************************************************************************)
(* observableDiff with an observer, and applyDiff, which is observableDiff *)
(* with the observer onChange.  lhs is the target and rhs the source; copy *)
(* keeps what the target held before the call.  acc is the observer's own  *)
(* log of the records it was called with.                                  *)
(***************************************************************************)
\* line 355: !filter || filter(target, source, change)
AcceptsAll(o, change) == TRUE

Accepts(o, change) == ~o.filtered \/ Loc(change) \notin o.rejects

\* lines 354-358: what the observer does to the heap when called with change
onChange(o, change) ==
    IF o.kind = "onChange" /\ Accepts(o, change)
    THEN applyChange(heap, lhs, ValueArg(rhs), ChangeArg(change))
    ELSE Ok(heap)

\* line 163: changes[i]
reportedFirst(cs, i) == cs[1]

reported(cs, i) == cs[i]

\* line 353: applyDiff does nothing unless target and source are both truthy
applyDiffSkips == observer.kind = "onChange" /\ ~(Truthy(lhs) /\ Truthy(rhs))

Observers ==
    {NoObserver, Observer("record", FALSE, {}), Observer("onChange", FALSE, {})}
    \cup {Observer("onChange", TRUE, rj) : rj \in RejectSets}

ObserveUniverse == FilterUniverse \cup ScalarLeaves

InitObserve ==
    \E tl \in ObserveUniverse, tr \in ObserveUniverse, o \in Observers :
        /\ Built(tl, tr, FALSE, NoOptions, <<>>)
        /\ observer = o

\* the state after the walk of line 159 gave st
Walked(st) ==
    /\ heap' = st.h
    /\ changes' = st.changes
    /\ err' = st.err
    /\ pc' = IF st.err = "none" THEN "observing" ELSE "threw"

\* lines 156-159 (and 353 for applyDiff): the walk, complete before any
\* observer call
CallObservableDiff ==
    /\ pc = "start"
    /\ ~applyDiffSkips
    /\ Walked(observableDiff(heap, lhs, rhs, NoPrefilter, FALSE))
    /\ UNCHANGED <<observer, lhs, rhs, copy, options, acc, returned, residual, idx>>

\* line 353 false: applyDiff returns without calling observableDiff
SkipApplyDiff ==
    /\ pc = "start"
    /\ applyDiffSkips
    /\ pc' = "returned"
    /\ UNCHANGED <<observer, heap, lhs, rhs, copy, options, acc, changes, returned, residual,
                   idx, err>>

\* the state after the observer was called with change; an exception of the
\* observer leaves observableDiff
Observed(change) ==
    /\ acc' = Append(acc, change)
    /\ Replayed(onChange(observer, change), "threw")

\* lines 162-164: one round of the for loop
Observe ==
    /\ pc = "observing"
    /\ observer.kind # "absent"
    /\ idx <= Len(changes)
    /\ Observed(reported(changes, idx))
    /\ idx' = idx + 1
    /\ UNCHANGED <<observer, lhs, rhs, copy, options, changes, returned, residual>>

\* line 167: return changes (applyDiff drops the value)
Return ==
    /\ pc = "observing"
    /\ observer.kind = "absent" \/ idx > Len(changes)
    /\ returned' = "changes"
    /\ pc' = "returned"
    /\ UNCHANGED <<observer, heap, lhs, rhs, copy, options, acc, changes, residual, idx, err>>

\* the caller compares target and source afterwards
VerifyTarget ==
    /\ pc = "returned"
    /\ Verified(diff(heap, lhs, rhs, NoOptions, <<>>))
    /\ pc' = "verified"
    /\ UNCHANGED <<observer, lhs, rhs, copy, options, acc, changes, returned, idx, err>>

NextObserve == CallObservableDiff \/ SkipApplyDiff \/ Observe \/ Return \/ VerifyTarget

SpecObserve == InitObserve /\ [][NextObserve]_vars

(***************************************************************************)
(* Properties of applyDiff (observer onChange) under SpecObserve.          *)
(***************************************************************************)
\* the value at a location below root, and whether the location exists
RECURSIVE Lookup(_, _, _, _)
Lookup(h, v, loc, i) ==
    IF i > Len(loc) THEN [present |-> TRUE, v |-> v]
    ELSE IF ~HasOwn(h, v, loc[i]) THEN [present |-> FALSE, v |-> Undefined]
    ELSE Lookup(h, Get(h, v, loc[i]), loc, i + 1)

SameEntry(h, a, b) == a.present = b.present /\ SameContent(h, a.v, b.v)

\* the location holds in the target what it held before the call
Kept(loc) == SameEntry(heap, Lookup(heap, lhs, loc, 1), Lookup(heap, copy, loc, 1))

Rejected(c) == observer.filtered /\ Loc(c) \in observer.rejects

\* an accepted record removed an element of the same sequence at a lower
\* index, which moves the elements above it
Shifted(c) ==
    /\ c.kind = "A"
    /\ \E n \in 1..Len(changes) :
           /\ ~Rejected(changes[n])
           /\ changes[n].kind = "A"
           /\ ItemOf(changes[n])[1].kind = "D"
           /\ changes[n].path = c.path
           /\ changes[n].index < c.index

ApplyDiffDone == observer.kind = "onChange" /\ pc \in {"returned", "verified"}

\* C12 (as stated): applyDiff(target, source, filter) consults the filter
\* once for each record of the diff of target against source, in emission
\* order; every location whose record was rejected keeps the value it had in
\* target before the call; and with no filter, or one that accepts every
\* record, the call completes and diff(target, source) reports no changes
\* afterwards.
C12_FilteredApply ==
    observer.kind = "onChange" =>
        /\ ApplyDiffDone /\ ~applyDiffSkips => acc = changes
        /\ ApplyDiffDone => \A n \in 1..Len(changes) :
               Rejected(changes[n]) => Kept(Loc(changes[n]))
        /\ (\A n \in 1..Len(changes) : ~Rejected(changes[n])) =>
               /\ pc # "threw"
               /\ pc = "verified" => residual = <<>>

\* C12 (amended): the filter is consulted once for each record, in emission
\* order; a location whose record was rejected keeps the value it had in
\* target before the call unless an accepted record deleted an element at a
\* lower index of the same sequence; and when both roots are mappings, both
\* are sequences or they are the same scalar, and no record is rejected, the
\* call completes and diff(target, source) reports no changes afterwards.
C12_FilteredApplyUnshifted ==
    observer.kind = "onChange" =>
        /\ ApplyDiffDone /\ ~applyDiffSkips => acc = changes
        /\ ApplyDiffDone => \A n \in 1..Len(changes) :
               Rejected(changes[n]) /\ ~Shifted(changes[n]) => Kept(Loc(changes[n]))
        /\ (RootsAlike /\ \A n \in 1..Len(changes) : ~Rejected(changes[n])) =>
               /\ pc # "threw"
               /\ pc = "verified" => residual = <<>>

\* a filtered applyDiff has returned after rejecting one record and applying
\* another
C12_Witness ==
    /\ ApplyDiffDone
    /\ \E m, n \in 1..Len(changes) : Rejected(changes[m]) /\ ~Rejected(changes[n])
    /\ ~Kept(<<>>)

(***************************************************************************)
(* Properties of observableDiff's observer calls under SpecObserve.        *)
(***************************************************************************)
\* kind and location of every record, in order
Shape(cs) == [n \in 1..Len(cs) |-> <<cs[n].kind, Loc(cs[n])>>]

\* the records a walk of the values before the call gives
Unobserved == observableDiff(heap, copy, rhs, NoPrefilter, FALSE).changes

KeySet(h, v) == {h[v.n].keys[i] : i \in 1..Len(h[v.n].keys)}

\* the pairs of mappings that the walk compares, each with its path
RECURSIVE ComparedMappings(_, _, _, _, _)
ComparedMappings(h, l, r, path, seen) ==
    IF ~IsRef(l) \/ ~IsRef(r) THEN {}
    ELSE IF h[l.n].kind # h[r.n].kind \/ h[l.n].kind \notin {"array", "object"} \/ l.n \in seen
    THEN {}
    ELSE IF h[l.n].kind = "array"
    THEN UNION {ComparedMappings(h, Get(h, l, Num(i)), Get(h, r, Num(i)),
                                 Append(path, Num(i)), seen \cup {l.n}) :
                   i \in 0..(Min(Len(h[l.n].elems), Len(h[r.n].elems)) - 1)}
    ELSE {[path |-> path, l |-> l, r |-> r]}
         \cup UNION {ComparedMappings(h, Get(h, l, Str(k)), Get(h, r, Str(k)),
                                      Append(path, Str(k)), seen \cup {l.n}) :
                        k \in KeySet(h, l) \cap KeySet(h, r)}

\* the positions of the records of one kind at one path
RecordsAt(kind, path) ==
    {n \in 1..Len(changes) : changes[n].kind = kind /\ changes[n].path = path}

\* the records that address a location, of whatever kind
Addressing(loc) == {n \in 1..Len(changes) : Loc(changes[n]) = loc}

\* a key present only on the left yields exactly one record at path + [key],
\* a Deleted record carrying the left value
LeftOnly(site, k) ==
    /\ Addressing(Append(site.path, Str(k))) = RecordsAt("D", Append(site.path, Str(k)))
    /\ Cardinality(RecordsAt("D", Append(site.path, Str(k)))) = 1
    /\ \A n \in RecordsAt("D", Append(site.path, Str(k))) :
           changes[n].lhs = Get(heap, site.l, Str(k))

\* a key present only on the right yields exactly one record at path + [key],
\* a New record carrying the right value
RightOnly(site, k) ==
    /\ Addressing(Append(site.path, Str(k))) = RecordsAt("N", Append(site.path, Str(k)))
    /\ Cardinality(RecordsAt("N", Append(site.path, Str(k)))) = 1
    /\ \A n \in RecordsAt("N", Append(site.path, Str(k))) :
           changes[n].rhs = Get(heap, site.r, Str(k))

\* C14: when two mappings are compared at the same path, every own key
\* present only on the left yields exactly one Deleted record at path + [key]
\* carrying the left value, and every own key present only on the right
\* yields exactly one New record at path + [key] carrying the right value;
\* for every key, the empty string included, and for keys whose value is
\* undefined.
C14_MappingKeyCoverage ==
    pc = "diffed" =>
        \A site \in ComparedMappings(heap, lhs, rhs, <<>>, {}) :
            /\ \A k \in KeySet(heap, site.l) \ KeySet(heap, site.r) : LeftOnly(site, k)
            /\ \A k \in KeySet(heap, site.r) \ KeySet(heap, site.l) : RightOnly(site, k)

(***************************************************************************)
(* One record per location, under Spec.                                    *)
(***************************************************************************)
\* C15: in the sequence produced by one top-level walk no two records
\* address the same location and no record's location is a strict prefix of
\* another's (the location of an ArrayChange record is its path followed by
\* its index): a record at a location is never accompanied by records about
\* anything below it.
C15_OneRecordPerLocation ==
    \A m, n \in 1..Len(changes) :
        m # n => ~IsPrefix(Loc(changes[m]), Loc(changes[n]))

\* a walk gave three or more records, among them an ArrayChange and a record
\* of another kind, at two levels of depth
C15_Witness ==
    /\ pc = "diffed"
    /\ Len(changes) >= 3
    /\ \E m, n \in 1..Len(changes) :
           /\ changes[m].kind = "A"
           /\ changes[n].kind # "A"
           /\ Len(Loc(changes[m])) = 2
           /\ Len(Loc(changes[n])) = 2

============================================================================
